---- MODULE Spec2Model ----
(***************************************************************************)
(* A model of the two scripts of the repository:                           *)
(*   calculations/generate_files.py   writes one pw.x input file per point *)
(*                                    of a lattice-parameter sweep;        *)
(*   calculations/analyze_results.py  collects (lattice parameter, energy) *)
(*                                    pairs from the output files, fits a  *)
(*                                    quartic and writes a TikZ plot.      *)
(* Strings are sequences of one-character strings.  A Python float that    *)
(* comes from decimal text is the exact decimal <<m, e>> = m * 10^-e.      *)
(***************************************************************************)
EXTENDS Integers, Sequences, FiniteSets, TLC

VARIABLES
    \* ---- generate_files.py
    g_pc,             \* "loop" | "done" ("off" while the other script runs)
    g_i,              \* number of sweep points already handled by the for loop
    fs,               \* the 'calculations' directory: file name -> content (both scripts)
    written,          \* names opened with mode 'w' during this run
    results,          \* the list `results`
    pw_runs,          \* number of subprocess.run calls made
    output_filename,  \* the loop variable output_filename
    reported,         \* N of the final "Generated N input files", -1 before it
    \* ---- analyze_results.py
    a_pc,             \* "glob" | "loop" | "sort" | "fit" | "tikz" | "save" |
                      \* "done" | "exit" | "raised"
    output_files,     \* sorted(glob.glob('calculations/cu_a*.out'))
    f_idx,            \* number of output files the for loop has handled
    energy,           \* what extract_energy returned for the last file handled
    lattice_params,   \* the list, later the array, lattice_params
    energies,         \* the list, later the array, energies (eV)
    coeffs,           \* np.polyfit's result, highest power first
    a_fine,           \* the 1000-point grid, each point a rational <<num, den>>
    e_fine,           \* poly(a_fine), each value times den^4 as a two-limb integer
    min_idx,          \* np.argmin(e_fine), counted from 1
    a_eq,
    e_min,
    tikz_code,        \* the coordinates the TikZ text lists
    tex_file,         \* content of '../assets/lattice_optimization.tex'
    tex_writes,       \* number of times the .tex file was opened for writing
    stdout,           \* the messages printed that the model tracks
    exit_status       \* -1 while running, then the process exit status

gvars == <<g_pc, g_i, fs, written, results, pw_runs, output_filename, reported>>

avars == <<a_pc, output_files, f_idx, energy, lattice_params, energies,
           coeffs, a_fine, e_fine, min_idx, a_eq, e_min, tikz_code, tex_file,
           tex_writes, stdout, exit_status>>

vars == <<gvars, avars>>

(***************************************************************************)
(* Characters and decimal text                                             *)
(***************************************************************************)
Digits == <<"0", "1", "2", "3", "4", "5", "6", "7", "8", "9">>

DigitChar(d) == Digits[d + 1]

IsDigit(c) == \E d \in 1..10 : Digits[d] = c

DigitVal(c) == (CHOOSE d \in 1..10 : Digits[d] = c) - 1

RECURSIVE Pow10(_)
Pow10(k) == IF k = 0 THEN 1 ELSE 10 * Pow10(k - 1)

RECURSIVE IntToStr(_)
\* str(n) of a non-negative integer
IntToStr(n) == IF n < 10 THEN <<DigitChar(n)>>
               ELSE IntToStr(n \div 10) \o <<DigitChar(n % 10)>>

RECURSIVE ZeroPad(_, _)
\* digits of n, left-padded with zeros to width w
ZeroPad(n, w) == IF w = 0 THEN <<>>
                 ELSE ZeroPad(n \div 10, w - 1) \o <<DigitChar(n % 10)>>

\* round(num/den) to an integer, ties to even (what a 'f' format does)
RoundHalfEven(num, den) ==
    LET q == num \div den
        r == num % den
    IN  IF 2 * r > den THEN q + 1
        ELSE IF 2 * r < den THEN q
        ELSE q + (q % 2)

RoundTruncate(num, den) == num \div den

\* the rounding used by the format specification '.Nf'
FormatRound(num, den) == RoundHalfEven(num, den)

\* f'{x:.<prec>f}' of the non-negative rational x = num/den
FormatFixed(num, den, prec) ==
    LET q == FormatRound(num * Pow10(prec), den)
    IN  IntToStr(q \div Pow10(prec)) \o <<".">> \o ZeroPad(q % Pow10(prec), prec)

\* canonical decimal <<m, e>> (no trailing zero in the fraction)
RECURSIVE Canon(_, _)
Canon(m, e) == IF e > 0 /\ m % 10 = 0 THEN Canon(m \div 10, e - 1) ELSE <<m, e>>

(***************************************************************************)
(* glob, the file-name regex and float() of analyze_results.py             *)
(***************************************************************************)
Calculations == <<"c", "a", "l", "c", "u", "l", "a", "t", "i", "o", "n", "s", "/">>
CuA == <<"c", "u", "_", "a">>
DotIn == <<".", "i", "n">>
DotOut == <<".", "o", "u", "t">>

EndsWith(s, t) ==
    /\ Len(s) >= Len(t)
    /\ \A k \in 1..Len(t) : s[Len(s) - Len(t) + k] = t[k]

StartsWith(s, t) ==
    /\ Len(s) >= Len(t)
    /\ \A k \in 1..Len(t) : s[k] = t[k]

SetMin(S) == CHOOSE x \in S : \A y \in S : x <= y
SetMax(S) == CHOOSE x \in S : \A y \in S : x >= y

\* glob.glob('calculations/cu_a*.out') over the entries `names` of the directory
GlobCuAOut(names) ==
    { n \in names : /\ StartsWith(n, Calculations \o CuA)
                    /\ EndsWith(n, DotOut)
                    /\ Len(n) >= Len(Calculations) + Len(CuA) + Len(DotOut) }

\* the character class [\d.]
IsDigitOrDot(c) == IsDigit(c) \/ c = "."

NoMatch == [matched |-> FALSE, group |-> <<>>]

\* re.search(r'cu_a([\d.]+)\.out', s): the leftmost start, and there the longest
\* run of the class that is still followed by '.out' (greedy, with backtracking)
FilenameRegex(s) ==
    LET lens(p) == { k \in 1..Len(s) :
                       /\ p + 3 + k + 4 <= Len(s)
                       /\ SubSeq(s, p, p + 3) = CuA
                       /\ \A j \in (p + 4)..(p + 3 + k) : IsDigitOrDot(s[j])
                       /\ SubSeq(s, p + 4 + k, p + 7 + k) = DotOut }
        starts == { p \in 1..Len(s) : lens(p) # {} }
    IN  IF starts = {} THEN NoMatch
        ELSE LET p == SetMin(starts)
                 k == SetMax(lens(p))
             IN  [matched |-> TRUE, group |-> SubSeq(s, p + 4, p + 3 + k)]

RECURSIVE DigitsValue(_)
\* the integer written by the digits of t, its dots skipped
DigitsValue(t) ==
    IF t = <<>> THEN 0
    ELSE LET c == t[Len(t)]
             r == DigitsValue(SubSeq(t, 1, Len(t) - 1))
         IN  IF c = "." THEN r ELSE 10 * r + DigitVal(c)

ValueError == [ok |-> FALSE, val |-> <<0, 0>>]

\* float(t) for text over digits, '.' and '-': an optional sign, at least one
\* digit, at most one point; anything else raises ValueError
PyFloat(t) ==
    LET neg  == t # <<>> /\ t[1] = "-"
        body == IF neg THEN SubSeq(t, 2, Len(t)) ELSE t
        dots == { j \in 1..Len(body) : body[j] = "." }
        digs == { j \in 1..Len(body) : IsDigit(body[j]) }
    IN  IF \/ digs = {}
           \/ Cardinality(dots) > 1
           \/ Cardinality(dots) + Cardinality(digs) # Len(body)
        THEN ValueError
        ELSE LET e == IF dots = {} THEN 0 ELSE Len(body) - SetMax(dots)
                 m == DigitsValue(body)
             IN  [ok |-> TRUE, val |-> Canon(IF neg THEN 0 - m ELSE m, e)]

(***************************************************************************)
(* analyze_results.py: text search                                         *)
(***************************************************************************)
\* the characters of the model in code-point order, which sorted() compares
CodePoints == <<"!", "-", ".", "/", "0", "1", "2", "3", "4", "5", "6", "7", "8", "9",
                "=", "R", "_", "a", "c", "e", "g", "i", "l", "n", "o", "r", "s", "t",
                "u", "x", "y">>

Ord(c) == CHOOSE k \in 1..Len(CodePoints) : CodePoints[k] = c

\* s < t for Python strings
StrLess(s, t) ==
    \E k \in 1..(Len(s) + 1) :
        /\ k <= Len(t)
        /\ \A j \in 1..(k - 1) : s[j] = t[j]
        /\ k = Len(s) + 1 \/ Ord(s[k]) < Ord(t[k])

RECURSIVE Sorted(_)
\* sorted(S) of a set of distinct strings
Sorted(S) ==
    IF S = {} THEN <<>>
    ELSE LET m == CHOOSE x \in S : \A y \in S \ {x} : StrLess(x, y)
         IN  <<m>> \o Sorted(S \ {m})

\* The content of an output file is the sequence of its whitespace-separated
\* tokens: every gap of the energy regex is \s+, which also spans line ends.
Bang == <<"!">>
TotalTok == <<"t", "o", "t", "a", "l">>
EnergyTok == <<"e", "n", "e", "r", "g", "y">>
EqualsTok == <<"=">>
RyTok == <<"R", "y">>

\* the character class [-\d.]
IsSignDigitOrDot(c) == IsDigit(c) \/ c = "." \/ c = "-"

\* the hits of '!\s+total energy\s+=\s+([-\d.]+)\s+Ry' in the token sequence
EnergyHits(content) ==
    { p \in 1..(Len(content) - 5) :
        /\ content[p] = Bang
        /\ content[p + 1] = TotalTok
        /\ content[p + 2] = EnergyTok
        /\ content[p + 3] = EqualsTok
        /\ content[p + 4] # <<>>
        /\ \A j \in 1..Len(content[p + 4]) : IsSignDigitOrDot(content[p + 4][j])
        /\ content[p + 5] = RyTok }

\* re.search(r'!\s+total energy\s+=\s+([-\d.]+)\s+Ry', content): leftmost hit
EnergyRegex(content) ==
    IF EnergyHits(content) = {} THEN NoMatch
    ELSE [matched |-> TRUE, group |-> content[SetMin(EnergyHits(content)) + 4]]

None == [kind |-> "None", val |-> <<0, 0>>]
Raised == [kind |-> "ValueError", val |-> <<0, 0>>]

\* extract_energy(filename), given what f.read() returns
extract_energy(content) ==
    LET match == EnergyRegex(content)
    IN  IF match.matched
        THEN IF PyFloat(match.group).ok
             THEN [kind |-> "float", val |-> PyFloat(match.group).val]
             ELSE Raised
        ELSE None

(***************************************************************************)
(* analyze_results.py: numbers                                             *)
(***************************************************************************)
\* the decimal d on the scale 10^-E
ToExp(d, E) == d[1] * Pow10(E - d[2])

DecLE(x, y) ==
    LET E == IF x[2] > y[2] THEN x[2] ELSE y[2]
    IN  ToExp(x, E) <= ToExp(y, E)

\* RY_TO_EV = 13.605693122994, to the 6 decimals the script prints: micro-eV per Ry
RY_TO_EV == 13605693

\* energy * RY_TO_EV
ToEV(d) == Canon(d[1] * RY_TO_EV, d[2] + 6)

\* np.argsort(xs): the sort is not stable, so any order of equal keys may result
np_argsort(xs) ==
    { p \in [1..Len(xs) -> 1..Len(xs)] :
        /\ \A i, j \in 1..Len(xs) : i # j => p[i] # p[j]
        /\ \A k \in 1..(Len(xs) - 1) : DecLE(xs[p[k]], xs[p[k + 1]]) }

\* arr[idx] for an index array idx
Take(arr, idx) == [k \in 1..Len(idx) |-> arr[idx[k]]]

\* len(a_fine), the degree of the fit, and the number of curve points emitted
FineNum == 1000
PolyDeg == 4
subsample == 100

\* np.linspace(lo, hi, num) of two decimals: point i (from 0) is the rational
\* lo + i * (hi - lo) / (num - 1), written <<numerator, denominator>>
np_linspace(lo, hi, num) ==
    LET E == IF lo[2] > hi[2] THEN lo[2] ELSE hi[2]
        l == ToExp(lo, E)
        h == ToExp(hi, E)
    IN  [i \in 1..num |-> <<(num - 1) * l + (i - 1) * (h - l), (num - 1) * Pow10(E)>>]

\* Integers wider than 32 bits: <<hi, lo>> is hi * WideBase + lo, 0 <= lo < WideBase
WideBase == 2 ^ 19

Wide(n) == <<n \div WideBase, n % WideBase>>

WAdd(a, b) == <<a[1] + b[1] + (a[2] + b[2]) \div WideBase, (a[2] + b[2]) % WideBase>>

\* a * x for 0 <= x < 4096
WMul(a, x) == <<a[1] * x + (a[2] * x) \div WideBase, (a[2] * x) % WideBase>>

WLess(a, b) == a[1] < b[1] \/ (a[1] = b[1] /\ a[2] < b[2])

RECURSIVE WScale(_, _, _)
\* c * d^k
WScale(c, d, k) == IF k = 0 THEN Wide(c) ELSE WMul(WScale(c, d, k - 1), d)

RECURSIVE Horner(_, _, _)
\* np.poly1d.__call__: y = 0; for pv in coeffs: y = y * x + pv, at x = num/den.
\* Horner(c, k, x) is y after the first k coefficients, times den^(k-1), exactly.
Horner(c, k, x) ==
    IF k = 1 THEN Wide(c[1])
    ELSE WAdd(WMul(Horner(c, k - 1, x), x[1]), WScale(c[k], x[2], k - 1))

\* poly(x) times den^PolyDeg
PolyVal(c, x) == Horner(c, PolyDeg + 1, x)

RECURSIVE ArgExtreme(_, _, _, _)
\* the first index in lo..hi whose value no other index of lo..hi beats
ArgExtreme(better(_, _), e, lo, hi) ==
    IF lo = hi THEN lo
    ELSE LET mid == (lo + hi) \div 2
             l == ArgExtreme(better, e, lo, mid)
             r == ArgExtreme(better, e, mid + 1, hi)
         IN  IF better(e[r], e[l]) THEN r ELSE l

WLessOrEqual(a, b) == ~WLess(b, a)

\* np.argmin(e) taking the last of several minima, counted from 0
np_argmin_last(e) == ArgExtreme(WLessOrEqual, e, 1, Len(e)) - 1

\* np.argmin(e), counted from 0: the first occurrence of the minimum
np_argmin(e) == ArgExtreme(WLess, e, 1, Len(e)) - 1

\* every (n // subsample)-th index: 0, 10, ..., 990
SubsampleStride(n) ==
    [i \in 1..subsample |-> (i - 1) * (n \div subsample)]

\* np.linspace(0, n - 1, subsample, dtype=int): floor(i * (n-1) / (subsample-1)).
\* The float64 step (n-1)/(subsample-1) = 999/99 is rounded up, and i * step
\* floors to the same integer as the exact quotient for every i in 0..99.
np_linspace_int(n) ==
    [i \in 1..subsample |-> ((i - 1) * (n - 1)) \div (subsample - 1)]

\* the analysis script has not been started
AnaNotStarted ==
    /\ a_pc = "glob"
    /\ output_files = <<>>
    /\ f_idx = 0
    /\ energy = [kind |-> "None", val |-> <<0, 0>>]
    /\ lattice_params = <<>>
    /\ energies = <<>>
    /\ coeffs = <<>>
    /\ a_fine = <<>>
    /\ e_fine = <<>>
    /\ min_idx = 0
    /\ a_eq = <<0, 1>>
    /\ e_min = <<0, 0>>
    /\ tikz_code = <<>>
    /\ tex_file = <<>>
    /\ tex_writes = 0
    /\ stdout = <<>>
    /\ exit_status = -1

(***************************************************************************)
(* generate_files.py                                                       *)
(***************************************************************************)
\* np.linspace(2.2, 2.9, 12): the sweep in tenths of an Angstrom
SweepStart == 22
SweepStop == 29
SweepNum == 12

\* lattice_params_ang[i] as the exact rational <<num, den>> Angstrom:
\* start + i * (stop - start) / (num - 1).  The float64 value differs from it
\* by about 1e-16, far less than the distance 1/22000 of any sweep point from
\* a rounding tie of the '.3f' format.
lattice_params_ang(i) ==
    <<SweepStart * (SweepNum - 1) + i * (SweepStop - SweepStart), 10 * (SweepNum - 1)>>

\* a file name built with one decimal only
input_filename_1f(a) == Calculations \o CuA \o FormatFixed(a[1], a[2], 1) \o DotIn

\* f'calculations/cu_a{a_ang:.3f}.in'
input_filename(a) == Calculations \o CuA \o FormatFixed(a[1], a[2], 3) \o DotIn

\* f'calculations/cu_a{a_ang:.3f}.out'
OutputFilename(a) == Calculations \o CuA \o FormatFixed(a[1], a[2], 3) \o DotOut

\* input_template.format(a_ang=a_ang, a_bohr=a_bohr): the two fields that vary.
\* a_bohr = a_ang * ANG_TO_BOHR is kept as the product it is.
input_text(a) ==
    [prefix |-> <<"c", "u", "_", "s", "c", "_", "a">> \o FormatFixed(a[1], a[2], 3),
     celldm |-> [a_ang |-> a, times |-> "ANG_TO_BOHR"]]

\* files that may already be in 'calculations' (os.makedirs(..., exist_ok=True)):
\* outputs and inputs of an earlier run, of this sweep or of another one
StaleFiles ==
    { OutputFilename(lattice_params_ang(0)), OutputFilename(lattice_params_ang(1)),
      input_filename(lattice_params_ang(0)), input_filename(lattice_params_ang(SweepNum - 1)),
      Calculations \o CuA \o <<"3", ".", "0", "0", "0">> \o DotOut }

GenInit ==
    /\ g_pc = "loop"
    /\ g_i = 0
    /\ \E old \in SUBSET StaleFiles :
           fs = [n \in old |-> IF EndsWith(n, DotIn) THEN input_text(<<3, 1>>)
                                ELSE "stale pw.x output"]
    /\ written = {}
    /\ results = <<>>
    /\ pw_runs = 0
    /\ output_filename = <<>>
    /\ reported = -1
    /\ AnaNotStarted

\* open(name, 'w'); f.write(text): create or truncate, then write
WriteFile(dir, name, text) ==
    [n \in DOMAIN dir \cup {name} |-> IF n = name THEN text ELSE dir[n]]

\* one iteration of `for i, a_ang in enumerate(lattice_params_ang)`, with the
\* subprocess.run line uncommented
GenLoopBodyRunning ==
    /\ g_pc = "loop"
    /\ g_i < SweepNum
    /\ LET a == lattice_params_ang(g_i)
       IN  /\ fs' = WriteFile(WriteFile(fs, input_filename(a), input_text(a)),
                              OutputFilename(a), "pw.x output")
           /\ written' = written \cup {input_filename(a)}
           /\ output_filename' = OutputFilename(a)
    /\ pw_runs' = pw_runs + 1
    /\ g_i' = g_i + 1
    /\ UNCHANGED <<g_pc, results, reported, avars>>

\* one iteration of `for i, a_ang in enumerate(lattice_params_ang)`
GenLoopBody ==
    /\ g_pc = "loop"
    /\ g_i < SweepNum
    /\ LET a == lattice_params_ang(g_i)
       IN  /\ fs' = WriteFile(fs, input_filename(a), input_text(a))
           /\ written' = written \cup {input_filename(a)}
           /\ output_filename' = OutputFilename(a)
    /\ g_i' = g_i + 1
    /\ UNCHANGED <<g_pc, results, pw_runs, reported, avars>>

\* the loop is exhausted: print(f"\nGenerated {len(lattice_params_ang)} ...")
GenFinish ==
    /\ g_pc = "loop"
    /\ g_i = SweepNum
    /\ reported' = SweepNum
    /\ g_pc' = "done"
    /\ UNCHANGED <<g_i, fs, written, results, pw_runs, output_filename, avars>>

GenNext == GenLoopBody \/ GenFinish

SpecGen == GenInit /\ [][GenNext]_vars

(***************************************************************************)
(* analyze_results.py: the script                                          *)
(***************************************************************************)
\* the generation script is not running
GenNotRunning ==
    /\ g_pc = "off"
    /\ g_i = 0
    /\ written = {}
    /\ results = <<>>
    /\ pw_runs = 0
    /\ output_filename = <<>>
    /\ reported = -1

MaxFiles == 2

\* '!    total energy = <x> Ry', the line pw.x prints once the SCF cycle has
\* converged, and 'total energy = <x> Ry', the line it prints at each iteration
BangLine(x) == <<Bang, TotalTok, EnergyTok, EqualsTok, x, RyTok>>
IterLine(x) == <<TotalTok, EnergyTok, EqualsTok, x, RyTok>>

\* output files: a run that did not converge, a converged run, a file with two
\* final energies (in either order)
OutTexts ==
    { IterLine(<<"-", "3">>),
      IterLine(<<"-", "3">>) \o BangLine(<<"-", "2">>),
      BangLine(<<"-", "1">>) \o BangLine(<<"-", "2">>),
      BangLine(<<"-", "2">>) \o IterLine(<<"-", "3">>) \o BangLine(<<"-", "1">>) }

\* file names a 'calculations' directory may hold
DirNames ==
    { Calculations \o CuA \o <<"0", "2">> \o DotOut,
      Calculations \o CuA \o <<"1">> \o DotOut,
      Calculations \o CuA \o <<"2", ".">> \o DotOut,
      Calculations \o CuA \o <<"1", ".", "2", ".", "3">> \o DotOut,
      Calculations \o CuA \o <<"x">> \o DotOut,
      Calculations \o CuA \o <<"1">> \o DotIn }

AnaInit ==
    /\ GenNotRunning
    /\ AnaNotStarted
    /\ \E names \in SUBSET DirNames :
         /\ Cardinality(names) <= MaxFiles
         /\ \E d \in [names -> OutTexts \cup {<<>>}] :
              /\ \A n \in names : EndsWith(n, DotIn) <=> d[n] = <<>>
              /\ fs = d

\* output_files = sorted(glob.glob('calculations/cu_a*.out'))
AnaGlob ==
    /\ a_pc = "glob"
    /\ output_files' = Sorted(GlobCuAOut(DOMAIN fs))
    /\ a_pc' = "loop"
    /\ UNCHANGED <<gvars, f_idx, energy, lattice_params, energies, coeffs, a_fine,
                   e_fine, min_idx, a_eq, e_min, tikz_code, tex_file, tex_writes,
                   stdout, exit_status>>

\* the loop body appending the lattice parameter before looking at the energy
AnaLoopBodyAppendEarly ==
    /\ a_pc = "loop"
    /\ f_idx < Len(output_files)
    /\ LET filename == output_files[f_idx + 1]
           match == FilenameRegex(filename)
           a_ang == PyFloat(match.group)
           e == extract_energy(fs[filename])
       IN  IF ~match.matched \/ ~a_ang.ok
           THEN UNCHANGED <<energy, lattice_params, energies>>
           ELSE /\ energy' = e
                /\ lattice_params' = Append(lattice_params, a_ang.val)
                /\ energies' = IF e.kind = "float" THEN Append(energies, ToEV(e.val))
                                ELSE energies
    /\ f_idx' = f_idx + 1
    /\ UNCHANGED <<gvars, a_pc, exit_status, output_files, coeffs, a_fine, e_fine,
                   min_idx, a_eq, e_min, tikz_code, tex_file, tex_writes, stdout>>

\* one iteration of `for filename in output_files`; an uncaught ValueError of
\* float() ends the script with a traceback and status 1
AnaLoopBody ==
    /\ a_pc = "loop"
    /\ f_idx < Len(output_files)
    /\ LET filename == output_files[f_idx + 1]
           match == FilenameRegex(filename)
           a_ang == PyFloat(match.group)
           e == extract_energy(fs[filename])
       IN  IF ~match.matched
           THEN UNCHANGED <<a_pc, energy, lattice_params, energies, exit_status>>
           ELSE IF ~a_ang.ok
           THEN /\ a_pc' = "raised"
                /\ exit_status' = 1
                /\ UNCHANGED <<energy, lattice_params, energies>>
           ELSE /\ energy' = e
                /\ IF e.kind = "ValueError"
                   THEN /\ a_pc' = "raised"
                        /\ exit_status' = 1
                        /\ UNCHANGED <<lattice_params, energies>>
                   ELSE IF e.kind = "None"
                   THEN UNCHANGED <<a_pc, lattice_params, energies, exit_status>>
                   ELSE /\ lattice_params' = Append(lattice_params, a_ang.val)
                        /\ energies' = Append(energies, ToEV(e.val))
                        /\ UNCHANGED <<a_pc, exit_status>>
    /\ f_idx' = f_idx + 1
    /\ UNCHANGED <<gvars, output_files, coeffs, a_fine, e_fine, min_idx, a_eq, e_min,
                   tikz_code, tex_file, tex_writes, stdout>>

\* `if len(energies) == 0: print(...); exit(1)`, reached when the loop is exhausted
AnaEmptyGuard ==
    /\ a_pc = "loop"
    /\ f_idx = Len(output_files)
    /\ IF Len(energies) = 0
       THEN /\ stdout' = Append(stdout, "No energies extracted")
            /\ exit_status' = 1
            /\ a_pc' = "exit"
       ELSE /\ a_pc' = "sort"
            /\ UNCHANGED <<stdout, exit_status>>
    /\ UNCHANGED <<gvars, output_files, f_idx, energy, lattice_params, energies, coeffs,
                   a_fine, e_fine, min_idx, a_eq, e_min, tikz_code, tex_file, tex_writes>>

\* the sort that reorders lattice_params only
AnaSortParamsOnly ==
    /\ a_pc = "sort"
    /\ \E sort_idx \in np_argsort(lattice_params) :
         /\ lattice_params' = Take(lattice_params, sort_idx)
         /\ energies' = energies
    /\ a_pc' = "fit"
    /\ UNCHANGED <<gvars, output_files, f_idx, energy, coeffs, a_fine, e_fine, min_idx,
                   a_eq, e_min, tikz_code, tex_file, tex_writes, stdout, exit_status>>

\* sort_idx = np.argsort(lattice_params); both arrays indexed by sort_idx
AnaSort ==
    /\ a_pc = "sort"
    /\ \E sort_idx \in np_argsort(lattice_params) :
         /\ lattice_params' = Take(lattice_params, sort_idx)
         /\ energies' = Take(energies, sort_idx)
    /\ a_pc' = "fit"
    /\ UNCHANGED <<gvars, output_files, f_idx, energy, coeffs, a_fine, e_fine, min_idx,
                   a_eq, e_min, tikz_code, tex_file, tex_writes, stdout, exit_status>>

\* np.polyfit(lattice_params, energies, 4): the least-squares solution is not
\* computed; the fit returns one of these quartics (highest power first)
np_polyfit ==
    { <<0, 0, 0, 0, 0>>,
      <<0, 0, 0, 1, 0>>,
      <<0, 0, 0, -1, 3>>,
      <<0, 0, 1, -3, 0>>,
      <<1, -6, 13, -12, 4>> }

DecMin(xs) == xs[CHOOSE i \in 1..Len(xs) : \A j \in 1..Len(xs) : DecLE(xs[i], xs[j])]
DecMax(xs) == xs[CHOOSE i \in 1..Len(xs) : \A j \in 1..Len(xs) : DecLE(xs[j], xs[i])]

\* the fit and the search of the minimum on the fine grid
AnaFitMinimum ==
    /\ a_pc = "fit"
    /\ coeffs' \in np_polyfit
    /\ a_fine' = np_linspace(DecMin(lattice_params), DecMax(lattice_params), FineNum)
    /\ e_fine' = [i \in 1..FineNum |-> PolyVal(coeffs', a_fine'[i])]
    /\ min_idx' = np_argmin(e_fine')
    /\ a_eq' = a_fine'[min_idx' + 1]
    /\ e_min' = e_fine'[min_idx' + 1]
    /\ a_pc' = "tikz"
    /\ UNCHANGED <<gvars, output_files, f_idx, energy, lattice_params, energies,
                   tikz_code, tex_file, tex_writes, stdout, exit_status>>

\* the TikZ text: its three coordinate lists
AnaTikz ==
    /\ a_pc = "tikz"
    /\ LET indices == np_linspace_int(Len(a_fine))
           E == SetMax({ energies[k][2] : k \in 1..Len(energies) })
           y_min == ToExp(DecMin(energies), E)
           y_max == ToExp(DecMax(energies), E)
           y_range == y_max - y_min
       IN  tikz_code' =
             [points |-> [k \in 1..Len(lattice_params) |->
                            <<lattice_params[k], energies[k]>>],
              curve  |-> [i \in 1..Len(indices) |->
                            <<a_fine[indices[i] + 1], e_fine[indices[i] + 1]>>],
              indices |-> indices,
              vline  |-> << <<a_eq, Canon(10 * y_min - y_range, E + 1)>>,
                            <<a_eq, Canon(10 * y_max + y_range, E + 1)>> >>]
    /\ a_pc' = "save"
    /\ UNCHANGED <<gvars, output_files, f_idx, energy, lattice_params, energies, coeffs,
                   a_fine, e_fine, min_idx, a_eq, e_min, tex_file, tex_writes, stdout,
                   exit_status>>

\* with open('../assets/lattice_optimization.tex', 'w') as f: f.write(tikz_code)
AnaSave ==
    /\ a_pc = "save"
    /\ tex_file' = tikz_code
    /\ tex_writes' = tex_writes + 1
    /\ stdout' = Append(stdout, "TikZ plot saved")
    /\ exit_status' = 0
    /\ a_pc' = "done"
    /\ UNCHANGED <<gvars, output_files, f_idx, energy, lattice_params, energies, coeffs,
                   a_fine, e_fine, min_idx, a_eq, e_min, tikz_code>>

AnaNext ==
    \/ AnaGlob
    \/ AnaLoopBody
    \/ AnaEmptyGuard
    \/ AnaSort
    \/ AnaFitMinimum
    \/ AnaTikz
    \/ AnaSave

Spec == AnaInit /\ [][AnaNext]_vars

C2_NameRoundTrip ==
    g_i > 0 =>
        LET a == lattice_params_ang(g_i - 1)
            m == FilenameRegex(output_filename)
            v == PyFloat(m.group)
            Abs(x) == IF x < 0 THEN 0 - x ELSE x
        IN  /\ GlobCuAOut({output_filename}) = {output_filename}
            /\ m.matched
            /\ v.ok
            /\ v.val = Canon(RoundHalfEven(a[1] * 1000, a[2]), 3)
            /\ 2 * Abs(v.val[1] * Pow10(3 - v.val[2]) * a[2] - 1000 * a[1]) <= a[2]

C2_Witness ==
    /\ g_i = 2
    /\ output_filename = Calculations \o CuA \o <<"2", ".", "2", "6", "4">> \o DotOut
    /\ PyFloat(FilenameRegex(output_filename).group).val = <<2264, 3>>

\* C6: the script only generates input files: each step changes or creates
\* nothing but a '.in' file, deletes nothing, never invokes pw.x and leaves
\* `results` empty; at the end exactly the 12 '.in' files have been written.
C6_OnlyInputFiles ==
    /\ [][ /\ pw_runs' = 0
           /\ results' = <<>>
           /\ DOMAIN fs \subseteq DOMAIN fs'
           /\ \A n \in DOMAIN fs' :
                EndsWith(n, DotIn) \/ (n \in DOMAIN fs /\ fs'[n] = fs[n])
           /\ \A n \in written' : EndsWith(n, DotIn) ]_vars
    /\ [](g_pc = "done" => /\ Cardinality(written) = 12
                           /\ pw_runs = 0
                           /\ results = <<>>)

C6_Witness ==
    /\ g_pc = "done"
    /\ Cardinality(written) = 12
    /\ \E n \in DOMAIN fs : EndsWith(n, DotOut)
    /\ \E n \in StaleFiles : EndsWith(n, DotOut) /\ n \notin DOMAIN fs

(***************************************************************************)
(* Properties of analyze_results.py                                        *)
(***************************************************************************)
\* the file the last loop iteration handled, and whether extract_energy ran on it
LastFile == output_files[f_idx]
LastCalled ==
    /\ f_idx >= 1
    /\ FilenameRegex(LastFile).matched
    /\ PyFloat(FilenameRegex(LastFile).group).ok

\* the value of the last '! total energy = <x> Ry' line of a content, or None
FinalEnergy(content) ==
    IF EnergyHits(content) = {} THEN None
    ELSE [kind |-> "float",
          val |-> PyFloat(content[SetMax(EnergyHits(content)) + 4]).val]

\* C3: extract_energy returns the final total energy of the file: the value of
\* the last '! total energy' line when there are several, of the only one when
\* there is one, None when there is none.
C3_ReturnsFinalEnergy ==
    (a_pc = "loop" /\ LastCalled) => energy = FinalEnergy(fs[LastFile])

Terminated == a_pc \in {"done", "exit", "raised"}

\* C5: the .tex file is written if and only if at least one pair was collected:
\* with no pair the script prints 'No energies extracted', exits with status 1
\* and writes nothing; with one or more pairs it writes the file exactly once.
C5_TexIffPairs ==
    Terminated =>
        /\ Len(energies) = 0 => /\ tex_writes = 0
                                /\ exit_status = 1
                                /\ stdout = <<"No energies extracted">>
        /\ Len(energies) >= 1 => tex_writes = 1 /\ tex_file = tikz_code

IsPermutation(p, n) ==
    /\ DOMAIN p = 1..n
    /\ \A i \in 1..n : p[i] \in 1..n
    /\ \A i, j \in 1..n : i # j => p[i] # p[j]

\* C7: the sort step leaves lattice_params in non-decreasing order and applies
\* one permutation to both arrays, so every energy stays with its lattice
\* parameter; the 'Calculated points' of the TikZ text are these pairs in order.
C7_SortKeepsPairs ==
    /\ [][a_pc = "sort" =>
            /\ \A k \in 1..(Len(lattice_params') - 1) :
                 DecLE(lattice_params'[k], lattice_params'[k + 1])
            /\ \E p \in [1..Len(lattice_params) -> 1..Len(lattice_params)] :
                 /\ IsPermutation(p, Len(lattice_params))
                 /\ lattice_params' = [k \in 1..Len(p) |-> lattice_params[p[k]]]
                 /\ energies' = [k \in 1..Len(p) |-> energies[p[k]]] ]_vars
    /\ [](a_pc \in {"save", "done"} =>
            /\ Len(tikz_code.points) = Len(lattice_params)
            /\ \A k \in 1..Len(lattice_params) :
                 tikz_code.points[k] = <<lattice_params[k], energies[k]>>
            /\ \A k \in 1..(Len(lattice_params) - 1) :
                 DecLE(tikz_code.points[k][1], tikz_code.points[k + 1][1]))

\* the loop met the larger lattice parameter first and the sort moved it last
C7_Witness ==
    /\ a_pc = "done"
    /\ output_files = << Calculations \o CuA \o <<"0", "2">> \o DotOut,
                         Calculations \o CuA \o <<"1">> \o DotOut >>
    /\ lattice_params = << <<1, 0>>, <<2, 0>> >>
    /\ energies[1] # energies[2]
    /\ tikz_code.points = << <<lattice_params[1], energies[1]>>,
                             <<lattice_params[2], energies[2]>> >>

\* C9: during the collection loop lattice_params and energies have the same
\* length, never more than the number of files handled; a file appends one
\* element to both lists when its name matches and extract_energy returns a
\* value, and otherwise leaves both unchanged.
C9_ListsInStep ==
    /\ [](/\ Len(lattice_params) = Len(energies)
          /\ a_pc = "loop" => Len(lattice_params) <= f_idx)
    /\ [][(a_pc = "loop" /\ f_idx' = f_idx + 1) =>
            LET filename == output_files[f_idx + 1]
                match == FilenameRegex(filename)
                e == extract_energy(fs[filename])
            IN  IF match.matched /\ PyFloat(match.group).ok /\ e.kind = "float"
                THEN /\ lattice_params' = Append(lattice_params, PyFloat(match.group).val)
                     /\ energies' = Append(energies, ToEV(e.val))
                ELSE UNCHANGED <<lattice_params, energies>> ]_vars

\* two files handled: one gave a pair, the other was skipped
C9_Witness ==
    /\ a_pc = "loop"
    /\ f_idx = 2
    /\ Len(lattice_params) = 1
    /\ Len(energies) = 1

Fitted == a_pc \in {"tikz", "save", "done"}

\* the rational r and the decimal d are the same number
RatEqDec(r, d) == r[1] * Pow10(d[2]) = d[1] * r[2]

\* C4: a_eq is the lowest-index point of the 1000-point even grid over
\* [min, max] of lattice_params at which the fitted polynomial is smallest, and
\* e_min is the polynomial's value there; a_eq lies in the sampled range, and it
\* is an endpoint when the polynomial is monotonic over the grid.
C4_GridMinimum ==
    Fitted =>
        /\ Len(a_fine) = 1000 /\ Len(e_fine) = 1000
        /\ RatEqDec(a_fine[1], lattice_params[1])
        /\ RatEqDec(a_fine[1000], lattice_params[Len(lattice_params)])
        /\ \A i \in 1..999 : /\ a_fine[i + 1][2] = a_fine[i][2]
                             /\ a_fine[i + 1][1] - a_fine[i][1] = a_fine[2][1] - a_fine[1][1]
        /\ min_idx \in 0..999
        /\ a_eq = a_fine[min_idx + 1]
        /\ e_min = e_fine[min_idx + 1]
        /\ e_min = PolyVal(coeffs, a_eq)
        /\ \A j \in 1..1000 : ~WLess(e_fine[j], e_min)
        /\ \A j \in 1..min_idx : WLess(e_min, e_fine[j])
        /\ a_fine[1][1] <= a_eq[1] /\ a_eq[1] <= a_fine[1000][1]
        /\ (\A i \in 1..999 : ~WLess(e_fine[i + 1], e_fine[i])) => a_eq = a_fine[1]
        /\ (\A i \in 1..999 : WLess(e_fine[i + 1], e_fine[i])) => a_eq = a_fine[1000]

\* a parabola with its vertex in the middle of the range [1, 2]: grid points
\* 499 and 500 tie, and the lower index wins
C4_Witness ==
    /\ Fitted
    /\ coeffs = <<0, 0, 1, -3, 0>>
    /\ a_fine[1] # a_fine[1000]
    /\ e_fine[500] = e_fine[501]
    /\ min_idx = 499

\* C8: the fitted curve of the TikZ text has exactly 100 coordinates, taken at
\* the grid indices floor(i*999/99), i = 0..99: strictly increasing, within
\* 0..999, from 0 to 999, so the curve runs from the smallest to the largest
\* sampled lattice parameter and repeats no grid point.
C8_CurveSubsample ==
    a_pc \in {"save", "done"} =>
        /\ Len(tikz_code.indices) = 100
        /\ Len(tikz_code.curve) = 100
        /\ \A i \in 0..99 :
             /\ tikz_code.indices[i + 1] = (i * 999) \div 99
             /\ tikz_code.indices[i + 1] \in 0..999
             /\ tikz_code.curve[i + 1] = <<a_fine[tikz_code.indices[i + 1] + 1],
                                           e_fine[tikz_code.indices[i + 1] + 1]>>
        /\ \A i \in 1..99 : tikz_code.indices[i] < tikz_code.indices[i + 1]
        /\ tikz_code.indices[1] = 0
        /\ tikz_code.indices[100] = 999
        /\ RatEqDec(tikz_code.curve[1][1], lattice_params[1])
        /\ RatEqDec(tikz_code.curve[100][1], lattice_params[Len(lattice_params)])

C8_Witness ==
    /\ a_pc = "done"
    /\ tikz_code.indices[12] = 111
    /\ tikz_code.curve[1][1] # tikz_code.curve[100][1]
    /\ tex_file.curve = tikz_code.curve

====
